---- MODULE Spec2Model ----
(***************************************************************************)
(* OneDrive -> R2 transfer tool (onedrive_to_r2.py).                       *)
(*                                                                         *)
(* A text (a URL or a line of the links file) is a record                  *)
(*   lead  : how the text begins ("http" for http:// or https://, "hash"   *)
(*           for '#', "other", "" for the empty text)                      *)
(*   names : the supported host names that occur in the text               *)
(*   path  : the shape of the path ("plain", "redir" for /redir?,          *)
(*           "short2" for /<c>/<c>/<id1>/<id2>, "longtok" for a path that  *)
(*           holds a token of 20+ characters, "" for none)                 *)
(*   query : the sequence of key=value parameters, separated by '&'        *)
(***************************************************************************)
EXTENDS Integers, Sequences, FiniteSets, TLC

VARIABLES
    available,   \* PYPPETEER_AVAILABLE
    configOk,    \* the four R2_* environment variables are set
    argv,        \* "single" (argv[1] is a URL) or "file" (argv[1] = --file)
    fileFound,   \* the links file can be opened
    lines,       \* the lines of the links file
    links,       \* process_links_from_file: the list `links`
    idx,         \* process_links_from_file: links processed so far
    results,     \* process_links_from_file: the dict `results`
    processed,   \* the URLs handed to process_link, in call order
    mainPc,      \* position in main()
    summary,     \* the three numbers main() prints in file mode
    exitCode,    \* process exit status
    pc,          \* position in process_link and the resolution below it
    url,         \* process_link's onedrive_url (original_url below)
    cur,         \* _extract_live_onedrive_info: url after expansion
    fileId,      \* _extract_live_onedrive_info: file_id
    route,       \* the branch extract_onedrive_info took
    plan,        \* the strategies the taken branch tries, in order
    step,        \* index in plan of the strategy being tried
    trace,       \* events of the link being processed, in order
    info,        \* file_info returned by the resolution
    ok,          \* process_link's return value for the current link
    depth,       \* _get_direct_download_url: recursion depth
    loopState,   \* what asyncio.get_event_loop() finds on the calling thread
    bridge,      \* extract_with_browser_sync: position
    coro,        \* _extract_with_browser: position of the coroutine
    coroErr,     \* the exception the coroutine raised, "" if none
    coroRes,     \* the descriptor the coroutine returned
    runs,        \* coroutines started by the current bridging call
    launched,    \* browsers launched by the current bridging call
    open,        \* browsers launched and not yet closed
    timedOut,    \* future.result(timeout=60) raised TimeoutError
    prefix,      \* r2_prefix given on the command line
    written,     \* local files written for the current link and still on disk
    r2Key,       \* upload_to_r2: the key of the last upload
    jar,         \* self.session holds cookies set by earlier responses
    page,        \* _get_direct_download_url: the page the current call fetches
    visited,     \* the pages fetched by the current scraper invocation
    exUrl,       \* identifier extraction on its own: url
    exOrig,      \* identifier extraction on its own: original_url
    exId         \* identifier extraction on its own: file_id, or "?" before

vars == <<available, configOk, argv, fileFound, lines, links, idx, results,
          processed, mainPc, summary, exitCode, pc, url, cur, fileId, route,
          plan, step, trace, info, ok, depth, loopState, bridge, coro,
          coroErr, coroRes, runs, launched, open, timedOut, prefix, written,
          r2Key, jar, page, visited, exUrl, exOrig, exId>>

(***************************************************************************)
(* Bounds of the model.                                                    *)
(***************************************************************************)
MaxLines == 2
MaxParams == 2
MaxDepth == 1

(***************************************************************************)
(* Texts.                                                                  *)
(***************************************************************************)
MinTokenLen == 20

None == "<None>"
ShortVal == "ABC123"
LongVal == "AAAAAAAAAAAAAAAAAAAAAAAAA"
PathToken == "PPPPPPPPPPPPPPPPPPPPPPPPP"
ShortId1 == "ID1"
ShortId2 == <<"a", "_", "b", "-", "c">>

Param(k, v) == [k |-> k, v |-> v]
Text(l, n, p, q) == [lead |-> l, names |-> n, path |-> p, query |-> q]

\* 'host' in url
Contains(u, host) == host \in u.names
\* url.startswith(('http://', 'https://'))
StartsWithHttp(u) == u.lead = "http"
\* '&' in url
HasAmp(u) == Len(u.query) >= 2
\* 'resid=' in url
HasResidEq(u) == \E i \in 1..Len(u.query) : u.query[i].k = "resid"
\* 'id=' in url: every key that ends in "id" carries the substring
HasIdEq(u) == \E i \in 1..Len(u.query) : u.query[i].k \in {"resid", "id", "cid"}
\* '/redir?' in url
HasRedir(u) == u.path = "redir"
\* 'o=OneUp' in url or 'sb=' in url or 'parId=' in url
IsFolder(u) == \E i \in 1..Len(u.query) :
                  \/ u.query[i].k \in {"sb", "parId"}
                  \/ u.query[i].k = "o" /\ u.query[i].v = "OneUp"
\* 'download=1' in url
HasDownload1(u) == \E i \in 1..Len(u.query) :
                      u.query[i].k = "download" /\ u.query[i].v = "1"
\* 'dl=1' in url
HasDl1(u) == \E i \in 1..Len(u.query) : u.query[i].k = "dl" /\ u.query[i].v = "1"

\* the least element of a set of indices, 0 if there is none
First(S) == IF S = {} THEN 0 ELSE CHOOSE i \in S : \A j \in S : i <= j

\* not x, for x a string or None
Falsy(x) == x \in {None, ""}

\* parse_qs: percent-decoding of a key
Unquote(k) == IF k = "res%69d" THEN "resid" ELSE k

\* url.split('resid=')[1].split('&')[0]
Rule1(u) ==
    u.query[First({i \in 1..Len(u.query) : u.query[i].k = "resid"})].v

\* parse_qs(urlparse(url).query).get('resid', [None])[0]; parse_qs drops
\* parameters with a blank value
Rule2(u) ==
    LET i == First({j \in 1..Len(u.query) :
                       Unquote(u.query[j].k) = "resid" /\ u.query[j].v # ""})
    IN  IF i = 0 THEN None ELSE u.query[i].v

\* re.search(r'[?&]id=([^&]+)', url)
Rule3(u) ==
    LET i == First({j \in 1..Len(u.query) :
                       u.query[j].k = "id" /\ u.query[j].v # ""})
    IN  IF i = 0 THEN None ELSE u.query[i].v

\* id2.replace('_', '%21').replace('-', '%2D')
RECURSIVE Encode(_)
Encode(s) ==
    IF s = <<>> THEN ""
    ELSE (IF Head(s) = "_" THEN "%21" ELSE IF Head(s) = "-" THEN "%2D" ELSE Head(s))
         \o Encode(Tail(s))

\* re.search(r'1drv\.ms/[a-z]/[a-z]/([^/]+)/([^/?]+)', original_url)
Rule4(orig) ==
    IF Contains(orig, "1drv.ms") /\ orig.path = "short2"
    THEN ShortId1 \o "!" \o Encode(ShortId2)
    ELSE None

\* re.findall(r'[A-Za-z0-9_-]{20,}', url)[0]: the path comes before the query
Rule5(u) ==
    LET i == First({j \in 1..Len(u.query) : Len(u.query[j].v) >= MinTokenLen})
    IN  IF u.path = "longtok" THEN PathToken
        ELSE IF i = 0 THEN None ELSE u.query[i].v

\* the if/elif chain of patterns 1 to 4
Chain(u, orig) ==
    IF HasResidEq(u) THEN Rule1(u)
    ELSE IF HasRedir(u) THEN Rule2(u)
    ELSE IF HasIdEq(u) THEN Rule3(u)
    ELSE IF Contains(orig, "1drv.ms") THEN Rule4(orig)
    ELSE None

\* file_id as it stands at `if not file_id: ... return` (None: not found)
ExtractFileId(u, orig) ==
    LET c == Chain(u, orig)
        f == IF Falsy(c) THEN Rule5(u) ELSE c
    IN  IF Falsy(f) THEN None ELSE f

(***************************************************************************)
(* Inputs of the runs.                                                     *)
(***************************************************************************)
Blank == Text("", {}, "", <<>>)
Comment == Text("hash", {}, "", <<>>)

Unsupported == Text("http", {}, "plain", <<Param("e", ShortVal)>>)
NoScheme == Text("other", {}, "plain", <<>>)
SharePoint == Text("http", {"sharepoint.com"}, "plain", <<Param("e", ShortVal)>>)
SharePointShort == Text("http", {"sharepoint.com", "1drv.ms"}, "plain", <<>>)
LiveResid == Text("http", {"onedrive.live.com"}, "plain",
                  <<Param("resid", ShortVal), Param("e", ShortVal)>>)
LiveNoId == Text("http", {"onedrive.live.com"}, "plain",
                 <<Param("e", ShortVal), Param("download", "1")>>)
LiveBare == Text("http", {"onedrive.live.com"}, "plain", <<>>)
LiveFolder == Text("http", {"onedrive.live.com"}, "plain",
                   <<Param("id", ShortVal), Param("sb", "name")>>)
Short2 == Text("http", {"1drv.ms"}, "short2", <<Param("e", ShortVal)>>)
ShortPlain == Text("http", {"1drv.ms"}, "plain", <<>>)

\* the URLs given on the command line
SingleUrls == {Unsupported, NoScheme, SharePoint, SharePointShort, LiveResid,
               LiveNoId, LiveBare, LiveFolder, Short2, ShortPlain}

\* response.url after the redirects of a short link
Expansions == {LiveResid, Text("http", {"onedrive.live.com"}, "plain", <<>>)}

\* the lines of a links file: [ws: leading whitespace, body: line.strip()]
Line(ws, body) == [ws |-> ws, body |-> body]
LineSet == {Line(FALSE, Blank), Line(FALSE, Comment), Line(TRUE, Comment),
            Line(FALSE, Unsupported), Line(TRUE, Unsupported),
            Line(FALSE, SharePoint)}

SeqsUpTo(S, n) == UNION {[1..k -> S] : k \in 0..n}

(***************************************************************************)
(* File names, paths and object keys (POSIX os.path). A name, a prefix or  *)
(* a key is a sequence of tokens: "/" and "\\" are the two separators,     *)
(* ".." the parent directory, anything else a piece of a component.        *)
(***************************************************************************)
\* the file names a Graph API answer, a page or the browser can carry
Names == {<<"f">>, <<"..", "/", "f">>, <<"/", "f">>, <<"d", "/", "f">>,
          <<"d", "\\", "f">>}

\* the r2_prefix values of the command line ("" when it is not given)
Prefixes == {<<>>, <<"p">>}

\* os.path.join(a, b)
OsPathJoin(a, b) ==
    IF b # <<>> /\ b[1] = "/" THEN b
    ELSE IF a = <<>> \/ a[Len(a)] = "/" THEN a \o b
    ELSE a \o <<"/">> \o b

\* .replace('\\', '/')
ReplaceBackslash(k) == [i \in 1..Len(k) |-> IF k[i] = "\\" THEN "/" ELSE k[i]]

\* if r2_key.startswith('/'): r2_key = r2_key[1:]
StripLeadingSlash(k) == IF k # <<>> /\ k[1] = "/" THEN Tail(k) ELSE k

\* r2_key as process_link builds it
R2Key(pre, name) == StripLeadingSlash(ReplaceBackslash(OsPathJoin(pre, name)))

\* the components of a relative path, split at "/"
RECURSIVE SplitSlash(_, _)
SplitSlash(k, acc) ==
    IF k = <<>> THEN <<acc>>
    ELSE IF Head(k) = "/" THEN <<acc>> \o SplitSlash(Tail(k), <<>>)
    ELSE SplitSlash(Tail(k), Append(acc, Head(k)))

\* where open(path, 'wb') creates the file, for a relative path resolved from
\* the new temporary directory (level 0): going up leaves the directory, a
\* directory that is named on the way does not exist, and the last component
\* must not be a directory
RECURSIVE Resolve(_, _)
Resolve(comps, level) ==
    IF Len(comps) = 1
    THEN IF Head(comps) \in {<<>>, <<"..">>} THEN "error"
         ELSE IF level < 0 THEN "outside" ELSE "temp"
    ELSE IF Head(comps) = <<"..">> THEN Resolve(Tail(comps), level - 1)
    ELSE IF Head(comps) = <<>> THEN Resolve(Tail(comps), level)
    ELSE "error"

\* the place of temp_file_path = os.path.join(temp_dir, filename)
WhereWritten(name) ==
    IF name # <<>> /\ name[1] = "/" THEN "outside"
    ELSE Resolve(SplitSlash(name, <<>>), 0)

\* leaving `with tempfile.TemporaryDirectory()` removes the directory and
\* what is in it
Cleanup(files) == files \ {"temp"}

(***************************************************************************)
(* The session and the pages.                                              *)
(***************************************************************************)
\* requests.Session keeps the cookies a response sets (c) for later requests
SetCookie(j, c) == j \/ c

\* the pages an iframe can point to; TopPage is the page of the link
Pages == {"p0", "p1"}
TopPage == "p0"

\* Deeper for a loop in place of the recursive call
DeeperFlat(d) == d

\* the recursive call return self._get_direct_download_url(iframe_url) adds
\* a frame to the stack
Deeper(d) == d + 1

(***************************************************************************)
(* File descriptors (file_info).                                           *)
(***************************************************************************)
Info(name, dl, src) == [name |-> name, download_url |-> dl, src |-> src]
NoInfo == Info(<<>>, None, "")

(***************************************************************************)
(* extract_onedrive_info: routing, and the strategies each branch tries.   *)
(***************************************************************************)
\* Classify without its else branch: whatever is not a consumer link is
\* handled as a SharePoint link
ClassifyNoElse(u) ==
    IF Contains(u, "onedrive.live.com") \/ Contains(u, "1drv.ms") THEN "live"
    ELSE "sharepoint"

\* the if/elif/else of extract_onedrive_info
Classify(u) ==
    IF Contains(u, "onedrive.live.com") \/ Contains(u, "1drv.ms") THEN "live"
    ELSE IF Contains(u, "sharepoint.com") THEN "sharepoint"
    ELSE "unsupported"

\* LivePlan with the page scraper tried before the browser
LivePlanScraperFirst(av, id) ==
    IF id = None THEN <<"scrape">>
    ELSE <<"meta", "scrape">> \o (IF av THEN <<"browser">> ELSE <<>>)

\* _extract_live_onedrive_info after the identifier extraction: the page
\* scraper alone without a file_id; otherwise the Graph API, the browser
\* when pyppeteer is there, the page scraper
LivePlan(av, id) ==
    IF id = None THEN <<"scrape">>
    ELSE <<"meta">> \o (IF av THEN <<"browser">> ELSE <<>>) \o <<"scrape">>

\* SharePointPlan with the browser tried before the page scraper
SharePointPlanBrowserFirst(av) ==
    (IF av THEN <<"browser">> ELSE <<>>) \o <<"scrape">>

\* SharePointPlan without the test of PYPPETEER_AVAILABLE
SharePointPlanUnguarded(av) ==
    <<"scrape", "browser">>

\* _extract_sharepoint_info: the page scraper, then the browser when
\* pyppeteer is there
SharePointPlan(av) ==
    <<"scrape">> \o (IF av THEN <<"browser">> ELSE <<>>)

\* MetaReturns without the test of the status code
MetaReturnsAnyStatus(resp) == resp \in {"ok", "nofield", "non200"}

\* the Graph API answer is returned to the caller: status 200 and a body
\* that parses (the download URL is whatever metadata.get() gives)
MetaReturns(resp) == resp \in {"ok", "nofield"}

\* the descriptor built from the Graph API answer
MetaInfo(resp, id, name) ==
    Info(name, IF resp = "ok" THEN "meta_url" ELSE None, id)

\* ExecutorExit that does not wait for the worker (shutdown(wait=False))
ExecutorExitNoWait(workerDone) == TRUE

\* with ThreadPoolExecutor() as executor: leaving the block joins the worker
ExecutorExit(workerDone) == workerDone

\* finally: if browser: await browser.close(), on n open browsers
FinallyClose(n) == n - 1

(***************************************************************************)
(* process_link and the resolution below it.                               *)
(***************************************************************************)
Log(e) == trace' = Append(trace, e)
LogAll(es) == trace' = trace \o es

mainVars == <<available, configOk, argv, fileFound, lines, links, idx,
              results, mainPc, summary, exitCode, prefix>>
ioVars == <<written, r2Key, jar, page, visited>>
browserVars == <<loopState, bridge, coro, coroErr, coroRes, runs, launched,
                 open, timedOut>>
exVars == <<exUrl, exOrig, exId>>

\* a call of process_link(u)
BeginLink(u) ==
    /\ pc' = "start"
    /\ url' = u
    /\ cur' = u
    /\ fileId' = None
    /\ route' = ""
    /\ plan' = <<>>
    /\ step' = 0
    /\ trace' = <<>>
    /\ info' = NoInfo
    /\ ok' = FALSE
    /\ depth' = 0
    /\ bridge' = ""
    /\ coro' = ""
    /\ coroErr' = ""
    /\ coroRes' = NoInfo
    /\ runs' = 0
    /\ launched' = 0
    /\ timedOut' = FALSE
    /\ processed' = Append(processed, u)
    /\ written' = {}
    /\ r2Key' = <<>>
    /\ page' = TopPage
    /\ visited' = {}
    /\ UNCHANGED <<loopState, open, jar>>

\* process_link returns False
ReturnFalse ==
    /\ pc' = "returned"
    /\ ok' = FALSE

\* the checks of process_link before the try block
Validate ==
    /\ pc = "start"
    /\ IF \/ ~StartsWithHttp(url)
          \/ Contains(url, "onedrive.live.com") /\ ~HasAmp(url) /\ ~HasIdEq(url)
          \/ Contains(url, "onedrive.live.com") /\ IsFolder(url)
       THEN ReturnFalse /\ Log("invalid")
       ELSE pc' = "classify" /\ ok' = ok /\ UNCHANGED trace
    /\ UNCHANGED <<url, cur, fileId, route, plan, step, info, depth, processed>>
    /\ UNCHANGED <<mainVars, browserVars, exVars>>
    /\ UNCHANGED ioVars

\* extract_onedrive_info: the dispatch on the host names; the ValueError of
\* the else branch is caught in the same function, which returns {}
ClassifyUrl ==
    /\ pc = "classify"
    /\ route' = Classify(url)
    /\ CASE route' = "unsupported" ->
              ReturnFalse /\ Log("unsupported") /\ UNCHANGED <<plan, step>>
         [] route' = "sharepoint" ->
              /\ pc' = "strategy"
              /\ plan' = SharePointPlan(available)
              /\ step' = 1
              /\ UNCHANGED <<ok, trace>>
         [] route' = "live" ->
              /\ pc' = IF Contains(url, "1drv.ms") THEN "expand" ELSE "extract"
              /\ UNCHANGED <<ok, trace, plan, step>>
    /\ UNCHANGED <<url, cur, fileId, info, depth, processed>>
    /\ UNCHANGED <<mainVars, browserVars, exVars>>
    /\ UNCHANGED ioVars

\* the GET that follows the redirects of a 1drv.ms link; an exception of the
\* GET leaves _extract_live_onedrive_info and extract_onedrive_info returns {}
Expand ==
    /\ pc = "expand"
    /\ \/ /\ ReturnFalse
          /\ LogAll(<<"GET expand", "expand failed">>)
          /\ cur' = cur
       \/ /\ \E u \in Expansions : cur' = u
          /\ pc' = "extract"
          /\ Log("GET expand")
          /\ ok' = ok
    /\ UNCHANGED <<url, fileId, route, plan, step, info, depth, processed>>
    /\ UNCHANGED <<mainVars, browserVars, exVars>>
    /\ \E c \in BOOLEAN : jar' = SetCookie(jar, c)
    /\ UNCHANGED <<written, r2Key, page, visited>>

\* patterns 1 to 5, and the choice of what to try with the result
Extract ==
    /\ pc = "extract"
    /\ fileId' = ExtractFileId(cur, url)
    /\ plan' = LivePlan(available, fileId')
    /\ step' = 1
    /\ pc' = "strategy"
    /\ Log("extract")
    /\ UNCHANGED <<url, cur, route, info, ok, depth, processed>>
    /\ UNCHANGED <<mainVars, browserVars, exVars>>
    /\ UNCHANGED ioVars

\* the strategy plan[step] raised: the next one is tried; after the last
\* the ValueError reaches extract_onedrive_info, which returns {}
StrategyFailed ==
    IF step < Len(plan)
    THEN pc' = "strategy" /\ step' = step + 1 /\ ok' = ok
    ELSE ReturnFalse /\ step' = step

\* the strategy plan[step] returned the descriptor d
StrategyReturned(d) ==
    /\ info' = d
    /\ pc' = "download"
    /\ UNCHANGED <<step, ok>>

\* the Graph API request of _extract_live_onedrive_info
Metadata ==
    /\ pc = "strategy"
    /\ plan[step] = "meta"
    /\ \E resp \in {"ok", "nofield", "badjson", "non200", "error"}, name \in Names :
          IF MetaReturns(resp)
          THEN /\ StrategyReturned(MetaInfo(resp, fileId, name))
               /\ LogAll(<<"try meta", "GET meta", "meta=" \o resp, "ok meta">>)
          ELSE /\ name = <<"f">>
               /\ StrategyFailed
               /\ LogAll(<<"try meta", "GET meta", "meta=" \o resp, "fail meta">>)
               /\ info' = info
    /\ UNCHANGED <<url, cur, fileId, route, plan, depth, processed>>
    /\ UNCHANGED <<mainVars, browserVars, exVars>>
    /\ \E c \in BOOLEAN : jar' = SetCookie(jar, c)
    /\ UNCHANGED <<written, r2Key, page, visited>>

\* one call of _get_direct_download_url: the call at depth 0 is made on the
\* original URL, the deeper ones on an iframe URL (hasParam: the iframe URL
\* carries download=1 or dl=1). Every exception inside is caught and turned
\* into the ValueError of the last line, which the calling frames pass up.
\* There is no visited set: a chain of iframes ends when the interpreter's
\* recursion limit (MaxDepth frames below the first) raises RecursionError
\* in the recursive call, an exception caught like every other.
Scrape ==
    /\ pc = "strategy"
    /\ plan[step] = "scrape"
    /\ \E body \in {"error", "found", "nomatch"}, accepted \in BOOLEAN,
          target \in Pages \cup {"none"}, hasParam \in BOOLEAN,
          name \in Names, c \in BOOLEAN :
          LET first == IF depth = 0 THEN <<"try scrape">> ELSE <<>>
              skip == IF depth = 0 THEN HasDownload1(url) \/ HasDl1(url) ELSE hasParam
              heads == IF skip THEN <<>> ELSE <<"HEAD probes">>
          IN
          /\ jar' = SetCookie(jar, c)
          /\ visited' = visited \cup {page}
          /\ CASE body = "error" ->
                 /\ ~accepted /\ target = "none" /\ ~hasParam /\ name = <<"f">>
                 /\ StrategyFailed
                 /\ LogAll(first \o <<"GET page", "fail scrape">>)
                 /\ depth' = 0
                 /\ page' = TopPage
                 /\ info' = info
            [] body = "found" ->
                 /\ ~accepted /\ target = "none" /\ ~hasParam
                 /\ StrategyReturned(Info(name, "page_url", "direct"))
                 /\ LogAll(first \o <<"GET page", "ok scrape">>)
                 /\ depth' = 0
                 /\ page' = TopPage
            [] body = "nomatch" /\ ~skip /\ accepted ->
                 /\ target = "none"
                 /\ StrategyReturned(Info(name, "test_url", "direct"))
                 /\ LogAll(first \o <<"GET page">> \o heads \o <<"ok scrape">>)
                 /\ depth' = 0
                 /\ page' = TopPage
            [] body = "nomatch" /\ (skip \/ ~accepted) ->
                 /\ ~accepted
                 /\ name = <<"f">>
                 /\ IF target # "none" /\ depth < MaxDepth
                    THEN /\ depth' = Deeper(depth)
                         /\ page' = target
                         /\ LogAll(first \o <<"GET page">> \o heads)
                         /\ UNCHANGED <<pc, step, ok, info>>
                    ELSE /\ StrategyFailed
                         /\ LogAll(first \o <<"GET page">> \o heads \o <<"fail scrape">>)
                         /\ depth' = 0
                         /\ page' = TopPage
                         /\ info' = info
    /\ UNCHANGED <<url, cur, fileId, route, plan, processed>>
    /\ UNCHANGED <<mainVars, browserVars, exVars, written, r2Key>>

(***************************************************************************)
(* extract_with_browser_sync and the coroutine _extract_with_browser.      *)
(***************************************************************************)
linkVars == <<url, cur, fileId, route, plan, depth, processed>>

\* the bridging call hands its outcome to the resolution
BridgeOutcome(err) ==
    /\ bridge' = ""
    /\ IF err = ""
       THEN StrategyReturned(coroRes) /\ Log("ok browser")
       ELSE StrategyFailed /\ Log("fail browser") /\ info' = info

\* entry of extract_with_browser_sync: the availability check, then
\* asyncio.get_event_loop() and the choice of the way to run the coroutine.
\* A closed loop makes run_until_complete raise RuntimeError before the
\* coroutine starts, which leads to the except branch like a missing loop.
BridgeCall ==
    /\ pc = "strategy"
    /\ plan[step] = "browser"
    /\ bridge = ""
    /\ IF ~available
       THEN /\ StrategyFailed
            /\ LogAll(<<"try browser", "fail browser">>)
            /\ UNCHANGED <<info, browserVars>>
       ELSE /\ bridge' = CASE loopState = "idle" -> "own"
                           [] loopState = "running" -> "thread"
                           [] OTHER -> "new"
            /\ coro' = "start"
            /\ coroErr' = ""
            /\ coroRes' = NoInfo
            /\ runs' = 1
            /\ launched' = 0
            /\ timedOut' = FALSE
            /\ Log("try browser")
            /\ UNCHANGED <<pc, step, ok, info, loopState, open>>
    /\ UNCHANGED <<linkVars, mainVars, exVars>>
    /\ UNCHANGED ioVars

\* the coroutine up to `browser = await launch(...)`: an exception before or
\* in launch leaves browser = None; launch may also never answer
CoroLaunch ==
    /\ coro = "start"
    /\ \/ \E err \in {"Error", "RuntimeError"} :
             /\ coro' = "done"
             /\ coroErr' = err
             /\ UNCHANGED <<launched, open, trace>>
       \/ /\ coro' = "hung"
          /\ UNCHANGED <<coroErr, launched, open, trace>>
       \/ /\ coro' = "page"
          /\ launched' = launched + 1
          /\ open' = open + 1
          /\ Log("launch")
          /\ coroErr' = coroErr
    /\ UNCHANGED <<pc, step, ok, info, loopState, bridge, coroRes, runs, timedOut>>
    /\ UNCHANGED <<linkVars, mainVars, exVars>>
    /\ UNCHANGED ioVars

\* the coroutine from newPage() to its end, the finally block included:
\* an exception, a download URL in the page, the download=1 fallback on the
\* current page URL (param: it already carries download=1), or no answer
CoroPage ==
    /\ coro = "page"
    /\ \/ \E err \in {"Error", "RuntimeError"} :
             /\ coro' = "done"
             /\ coroErr' = err
             /\ open' = FinallyClose(open)
             /\ Log("close")
             /\ coroRes' = coroRes
       \/ \E found \in BOOLEAN, param \in BOOLEAN, name \in Names :
             /\ found => ~param
             /\ ~found /\ param => name = <<"f">>
             /\ coro' = "done"
             /\ coroErr' = IF ~found /\ param THEN "Error" ELSE ""
             /\ coroRes' = IF found THEN Info(name, "dom_url", "browser_extracted")
                           ELSE IF ~param
                                THEN Info(name, "test_url", "browser_with_param")
                                ELSE coroRes
             /\ open' = FinallyClose(open)
             /\ Log("close")
       \/ /\ coro' = "hung"
          /\ UNCHANGED <<coroErr, coroRes, open, trace>>
    /\ UNCHANGED <<pc, step, ok, info, loopState, bridge, runs, launched, timedOut>>
    /\ UNCHANGED <<linkVars, mainVars, exVars>>
    /\ UNCHANGED ioVars

\* loop.run_until_complete on the loop get_event_loop() gave: a RuntimeError
\* out of the coroutine is taken by `except RuntimeError`, which runs the
\* coroutine again on a new loop
OwnDone ==
    /\ bridge = "own"
    /\ coro = "done"
    /\ IF coroErr = "RuntimeError"
       THEN /\ bridge' = "new"
            /\ coro' = "start"
            /\ coroErr' = ""
            /\ runs' = runs + 1
            /\ UNCHANGED <<pc, step, ok, info, trace>>
       ELSE /\ BridgeOutcome(coroErr)
            /\ UNCHANGED <<coro, coroErr, runs>>
    /\ UNCHANGED <<loopState, coroRes, launched, open, timedOut>>
    /\ UNCHANGED <<linkVars, mainVars, exVars>>
    /\ UNCHANGED ioVars

\* the except branch: run_until_complete on the new loop, which is then
\* closed and stays the current loop of the thread
NewDone ==
    /\ bridge = "new"
    /\ coro = "done"
    /\ BridgeOutcome(coroErr)
    /\ loopState' = IF loopState = "running" THEN "running" ELSE "closed"
    /\ UNCHANGED <<coro, coroErr, coroRes, runs, launched, open, timedOut>>
    /\ UNCHANGED <<linkVars, mainVars, exVars>>
    /\ UNCHANGED ioVars

\* future.result(timeout=60): the 60 seconds pass before the worker is done
ThreadTimeout ==
    /\ bridge = "thread"
    /\ coro # "done"
    /\ ~timedOut
    /\ timedOut' = TRUE
    /\ UNCHANGED <<pc, step, ok, info, trace, loopState, bridge, coro, coroErr,
                   coroRes, runs, launched, open>>
    /\ UNCHANGED <<linkVars, mainVars, exVars>>
    /\ UNCHANGED ioVars

\* the end of the `with ThreadPoolExecutor()` block: TimeoutError after a
\* timeout; else the worker's outcome, where a RuntimeError enters the
\* except branch, whose run_until_complete raises RuntimeError at once
\* because a loop is running on the calling thread
ThreadDone ==
    /\ bridge = "thread"
    /\ timedOut \/ coro = "done"
    /\ ExecutorExit(coro = "done")
    /\ BridgeOutcome(IF timedOut THEN "TimeoutError" ELSE coroErr)
    /\ UNCHANGED <<loopState, coro, coroErr, coroRes, runs, launched, open, timedOut>>
    /\ UNCHANGED <<linkVars, mainVars, exVars>>
    /\ UNCHANGED ioVars

(***************************************************************************)
(* download_file and upload_to_r2, as process_link calls them.             *)
(***************************************************************************)
\* session.get(download_url, stream=True) and the copy to the file at
\* os.path.join(temp_dir, filename); without a download URL requests raises
\* before sending anything. A failure leaves the `with` block of
\* process_link, which removes the temporary directory.
Download ==
    /\ pc = "download"
    /\ IF info.download_url = None
       THEN ReturnFalse /\ Log("download failed") /\ UNCHANGED <<written, jar>>
       ELSE \E outcome \in {"get error", "write error", "ok"}, c \in BOOLEAN :
               LET where == WhereWritten(info.name)
                   file == IF where = "error" THEN {} ELSE {where}
               IN
               /\ jar' = SetCookie(jar, c)
               /\ CASE outcome = "get error" ->
                         /\ ReturnFalse
                         /\ LogAll(<<"GET download", "download failed">>)
                         /\ written' = written
                    [] outcome = "write error" ->
                         /\ ReturnFalse
                         /\ LogAll(<<"GET download", "download failed">>)
                         /\ written' = Cleanup(written \cup file)
                    [] outcome = "ok" ->
                         /\ where # "error"
                         /\ pc' = "upload"
                         /\ Log("GET download")
                         /\ ok' = ok
                         /\ written' = written \cup file
    /\ UNCHANGED <<step, info, r2Key, page, visited>>
    /\ UNCHANGED <<linkVars, mainVars, browserVars, exVars>>

\* the key, upload_to_r2 (which catches every exception and returns False),
\* and the end of the `with` block of process_link
Upload ==
    /\ pc = "upload"
    /\ r2Key' = R2Key(prefix, info.name)
    /\ \E success \in BOOLEAN :
          /\ ok' = success
          /\ LogAll(<<"upload", IF success THEN "uploaded" ELSE "upload failed">>)
    /\ written' = Cleanup(written)
    /\ pc' = "returned"
    /\ UNCHANGED <<step, info, jar, page, visited>>
    /\ UNCHANGED <<linkVars, mainVars, browserVars, exVars>>

(***************************************************************************)
(* process_links_from_file and main.                                       *)
(***************************************************************************)
\* line.strip()
Strip(line) == line.body
\* line.strip() and not line.startswith('#')
KeepLine(line) == Strip(line) # Blank /\ ~(~line.ws /\ line.body.lead = "hash")

\* [line.strip() for line in f if line.strip() and not line.startswith('#')]
RECURSIVE ReadLinks(_)
ReadLinks(ls) ==
    IF ls = <<>> THEN <<>>
    ELSE (IF KeepLine(Head(ls)) THEN <<Strip(Head(ls))>> ELSE <<>>)
         \o ReadLinks(Tail(ls))

\* SetItem that records the successes only
SetItemOnSuccess(d, link, value) ==
    IF value THEN [k \in DOMAIN d \cup {link} |-> IF k = link THEN value ELSE d[k]]
    ELSE d

\* results[link] = value
SetItem(d, link, value) ==
    [k \in DOMAIN d \cup {link} |-> IF k = link THEN value ELSE d[k]]

\* successful, total and total - successful of the summary
Summary(d) ==
    LET successful == Cardinality({k \in DOMAIN d : d[k]})
        total == Cardinality(DOMAIN d)
    IN  [total |-> total, successful |-> successful, failed |-> total - successful]

NoSummary == [total |-> -1, successful |-> -1, failed |-> -1]

\* ExitStatus without the sys.exit(1) of the failure branch
ExitStatusZero(success) == 0

\* single-link mode: main returns after a success, sys.exit(1) otherwise
ExitStatus(success) == IF success THEN 0 ELSE 1
Running == -1

procVars == <<pc, url, cur, fileId, route, plan, step, trace, info, ok, depth,
              processed>>

\* main without arguments, or --file without a path: a message and return
Usage ==
    /\ mainPc = "start"
    /\ argv = "none" \/ (argv = "file_nopath" /\ configOk)
    /\ mainPc' = "exit"
    /\ exitCode' = 0
    /\ UNCHANGED <<prefix, available, configOk, argv, fileFound, lines, links, idx,
                   results, summary>>
    /\ UNCHANGED <<procVars, browserVars, exVars>>
    /\ UNCHANGED ioVars

\* OneDriveToR2() raises ValueError: main prints it and exits with 1
ConfigMissing ==
    /\ mainPc = "start"
    /\ argv # "none"
    /\ ~configOk
    /\ mainPc' = "exit"
    /\ exitCode' = 1
    /\ UNCHANGED <<prefix, available, configOk, argv, fileFound, lines, links, idx,
                   results, summary>>
    /\ UNCHANGED <<procVars, browserVars, exVars>>
    /\ UNCHANGED ioVars

\* main calls process_link(sys.argv[1], r2_prefix)
StartSingle ==
    /\ mainPc = "start"
    /\ argv = "single"
    /\ configOk
    /\ \E u \in SingleUrls : BeginLink(u)
    /\ mainPc' = "single"
    /\ UNCHANGED <<prefix, available, configOk, argv, fileFound, lines, links, idx,
                   results, summary, exitCode>>
    /\ UNCHANGED exVars

\* process_links_from_file up to the loop; FileNotFoundError leaves results
\* empty
OpenFile ==
    /\ mainPc = "start"
    /\ argv = "file"
    /\ configOk
    /\ links' = IF fileFound THEN ReadLinks(lines) ELSE <<>>
    /\ idx' = 0
    /\ results' = [k \in {} |-> FALSE]
    /\ mainPc' = "loop"
    /\ UNCHANGED <<prefix, available, configOk, argv, fileFound, lines, summary, exitCode>>
    /\ UNCHANGED <<procVars, browserVars, exVars>>
    /\ UNCHANGED ioVars

\* the loop body calls process_link(link, r2_prefix)
NextLink ==
    /\ mainPc = "loop"
    /\ pc = "idle"
    /\ idx < Len(links)
    /\ BeginLink(links[idx + 1])
    /\ UNCHANGED <<mainVars, exVars>>

\* results[link] = self.process_link(link, r2_prefix)
LinkReturned ==
    /\ mainPc = "loop"
    /\ pc = "returned"
    /\ results' = SetItem(results, url, ok)
    /\ idx' = idx + 1
    /\ pc' = "idle"
    /\ UNCHANGED <<prefix, available, configOk, argv, fileFound, lines, links, mainPc,
                   summary, exitCode>>
    /\ UNCHANGED <<url, cur, fileId, route, plan, step, trace, info, ok, depth,
                   processed>>
    /\ UNCHANGED <<browserVars, exVars>>
    /\ UNCHANGED ioVars

\* the summary of main in file mode
Summarize ==
    /\ mainPc = "loop"
    /\ pc = "idle"
    /\ idx = Len(links)
    /\ summary' = Summary(results)
    /\ exitCode' = 0
    /\ mainPc' = "exit"
    /\ UNCHANGED <<prefix, available, configOk, argv, fileFound, lines, links, idx, results>>
    /\ UNCHANGED <<procVars, browserVars, exVars>>
    /\ UNCHANGED ioVars

\* the end of main in single-link mode: sys.exit(1) when process_link
\* returned False
SingleReturned ==
    /\ mainPc = "single"
    /\ pc = "returned"
    /\ exitCode' = ExitStatus(ok)
    /\ mainPc' = "exit"
    /\ pc' = "idle"
    /\ UNCHANGED <<prefix, available, configOk, argv, fileFound, lines, links, idx,
                   results, summary>>
    /\ UNCHANGED <<url, cur, fileId, route, plan, step, trace, info, ok, depth,
                   processed>>
    /\ UNCHANGED <<browserVars, exVars>>
    /\ UNCHANGED ioVars

(***************************************************************************)
(* The run of the program.                                                 *)
(***************************************************************************)
Init ==
    /\ available \in BOOLEAN
    /\ configOk \in BOOLEAN
    /\ argv \in {"none", "single", "file", "file_nopath"}
    /\ fileFound \in BOOLEAN
    /\ lines \in SeqsUpTo(LineSet, MaxLines)
    /\ argv # "file" => ~fileFound
    /\ ~fileFound => lines = <<>>
    /\ loopState \in {"idle", "none", "running"}
    /\ links = <<>>
    /\ idx = 0
    /\ results = [k \in {} |-> FALSE]
    /\ processed = <<>>
    /\ mainPc = "start"
    /\ summary = NoSummary
    /\ exitCode = Running
    /\ pc = "idle"
    /\ url = Blank
    /\ cur = Blank
    /\ fileId = None
    /\ route = ""
    /\ plan = <<>>
    /\ step = 0
    /\ trace = <<>>
    /\ info = NoInfo
    /\ ok = FALSE
    /\ depth = 0
    /\ bridge = ""
    /\ coro = ""
    /\ coroErr = ""
    /\ coroRes = NoInfo
    /\ runs = 0
    /\ launched = 0
    /\ open = 0
    /\ timedOut = FALSE
    /\ exUrl = Blank
    /\ exOrig = Blank
    /\ exId = "?"
    /\ written = {}
    /\ r2Key = <<>>
    /\ jar = FALSE
    /\ page = TopPage
    /\ visited = {}
    /\ prefix \in Prefixes
    /\ argv \in {"none", "file_nopath"} => prefix = <<>>

Next ==
    \/ Usage
    \/ ConfigMissing
    \/ StartSingle
    \/ OpenFile
    \/ NextLink
    \/ LinkReturned
    \/ Summarize
    \/ SingleReturned
    \/ Validate
    \/ ClassifyUrl
    \/ Expand
    \/ Extract
    \/ Metadata
    \/ Scrape
    \/ BridgeCall
    \/ CoroLaunch
    \/ CoroPage
    \/ OwnDone
    \/ NewDone
    \/ ThreadTimeout
    \/ ThreadDone
    \/ Download
    \/ Upload

Spec == Init /\ [][Next]_vars

\* the steps of the program are taken as long as one is possible
FairSpec == Init /\ [][Next]_vars /\ WF_vars(Next)

(***************************************************************************)
(* The identifier extraction on its own, on every URL of a bounded set.    *)
(***************************************************************************)
ExKeys == {"resid", "id", "cid", "res%69d", "e"}
ExValues == {"", ShortVal, LongVal}
ExParams == {Param(k, v) : k \in ExKeys, v \in ExValues}
ExQueries == SeqsUpTo(ExParams, MaxParams)

\* the URLs a consumer link or the expansion of a short link can be
ExLive == {Text("http", {"onedrive.live.com"}, p, q) :
              p \in {"plain", "redir", "longtok"}, q \in ExQueries}
\* the short links
ExShort == {Text("http", {"1drv.ms"}, p, <<>>) : p \in {"plain", "short2"}}

InitExtract ==
    /\ exUrl \in ExLive
    /\ exOrig \in ExShort \cup {exUrl}
    /\ exId = "?"
    /\ available = FALSE
    /\ configOk = TRUE
    /\ argv = "none"
    /\ fileFound = FALSE
    /\ lines = <<>>
    /\ loopState = "idle"
    /\ links = <<>>
    /\ idx = 0
    /\ results = [k \in {} |-> FALSE]
    /\ processed = <<>>
    /\ mainPc = "extract"
    /\ summary = NoSummary
    /\ exitCode = Running
    /\ pc = "idle"
    /\ url = Blank
    /\ cur = Blank
    /\ fileId = None
    /\ route = ""
    /\ plan = <<>>
    /\ step = 0
    /\ trace = <<>>
    /\ info = NoInfo
    /\ ok = FALSE
    /\ depth = 0
    /\ bridge = ""
    /\ coro = ""
    /\ coroErr = ""
    /\ coroRes = NoInfo
    /\ runs = 0
    /\ launched = 0
    /\ open = 0
    /\ timedOut = FALSE
    /\ written = {}
    /\ r2Key = <<>>
    /\ jar = FALSE
    /\ page = TopPage
    /\ visited = {}
    /\ prefix = <<>>

\* patterns 1 to 5 of _extract_live_onedrive_info applied to (url, original_url)
ApplyExtract ==
    /\ mainPc = "extract"
    /\ exId = "?"
    /\ exId' = ExtractFileId(exUrl, exOrig)
    /\ UNCHANGED <<exUrl, exOrig, mainVars, procVars, browserVars>>
    /\ UNCHANGED ioVars

NextExtract == ApplyExtract

SpecExtract == InitExtract /\ [][NextExtract]_vars

(***************************************************************************)
(* Properties.                                                             *)
(***************************************************************************)
Has(e) == \E i \in 1..Len(trace) : trace[i] = e
Count(e) == Cardinality({i \in 1..Len(trace) : trace[i] = e})
\* e occurs, and before position i
Before(e, i) == \E j \in 1..(i - 1) : trace[j] = e

IsTry(e) == e \in {"try meta", "try browser", "try scrape"}
\* the strategies attempted for the current link, in order
Tries == SelectSeq(trace, IsTry)
FailOf(t) == CASE t = "try meta" -> "fail meta"
               [] t = "try browser" -> "fail browser"
               [] t = "try scrape" -> "fail scrape"
OkEvents == {"ok meta", "ok browser", "ok scrape"}
\* the requests that go out to the network, and the browser launch
NetEvents == {"GET expand", "GET meta", "GET page", "HEAD probes", "launch",
              "GET download", "upload"}
Rank(t) == CASE t = "try meta" -> 1 [] t = "try browser" -> 2 [] t = "try scrape" -> 3

\* extract_onedrive_info was entered with a supported URL and returned {}
ResolutionFailed ==
    pc = "returned" /\ route \in {"live", "sharepoint"} /\ info = NoInfo
\* extract_onedrive_info returned a descriptor
Resolved == info # NoInfo

\* C1: for a consumer or short-link URL the strategies are attempted in the
\* order Graph API, browser, page scraper; the browser only when pyppeteer is
\* available and the Graph API only with an extracted identifier; a strategy
\* is attempted only after every strategy attempted before it has failed, and
\* nothing is attempted after a success.
C1_LiveOrder ==
    route = "live" =>
        /\ \A i, j \in 1..Len(Tries) : i < j => Rank(Tries[i]) < Rank(Tries[j])
        /\ Has("try browser") => available
        /\ Has("try meta") => fileId # None
        /\ Has("try scrape") /\ fileId # None =>
              Has("try meta") /\ (available => Has("try browser"))
        /\ \A i \in 1..Len(trace) : IsTry(trace[i]) =>
              \A j \in 1..(i - 1) : IsTry(trace[j]) => Before(FailOf(trace[j]), i)
        /\ \A i \in 1..Len(trace) : trace[i] \in OkEvents =>
              \A j \in (i + 1)..Len(trace) : ~IsTry(trace[j])

\* a consumer link for which all three strategies were attempted, the last
\* one with success
C1_Witness ==
    /\ route = "live"
    /\ Tries = <<"try meta", "try browser", "try scrape">>
    /\ Has("ok scrape")

\* C2: for a URL that takes the SharePoint branch there is no short-link
\* expansion, no identifier extraction and no Graph API request; the page
\* scraper is attempted first, the browser only after the page scraper has
\* failed and only when pyppeteer is available.
C2_SharePointOrder ==
    route = "sharepoint" =>
        /\ ~Has("extract") /\ ~Has("GET expand")
        /\ ~Has("try meta") /\ ~Has("GET meta")
        /\ fileId = None
        /\ Tries # <<>> => Tries[1] = "try scrape"
        /\ \A i \in 1..Len(trace) : trace[i] = "try browser" =>
              available /\ Before("fail scrape", i)

\* a SharePoint link resolved by the browser after the page scraper failed
C2_Witness ==
    /\ route = "sharepoint"
    /\ Tries = <<"try scrape", "try browser">>
    /\ Has("ok browser")

\* C3: the resolution of a supported URL reports failure only after the page
\* scraper, the browser when it is available, and the Graph API when an
\* identifier was extracted, have each been attempted and have failed.
C3_FailsOnlyWhenExhausted ==
    ResolutionFailed =>
        /\ Has("fail scrape")
        /\ available => Has("fail browser")
        /\ fileId # None => Has("fail meta")

\* the text names none of the supported hosts
NoSupportedHost(u) ==
    /\ ~Contains(u, "onedrive.live.com")
    /\ ~Contains(u, "1drv.ms")
    /\ ~Contains(u, "sharepoint.com")

\* C4: a URL that contains none of the supported host names is rejected
\* before any request goes out: process_link returns False with nothing but
\* the rejection in the trace, which is the classification failure for every
\* URL that starts with http:// or https://.
C4_UnsupportedNoNetwork ==
    pc # "idle" /\ NoSupportedHost(url) =>
        /\ \A i \in 1..Len(trace) : trace[i] \notin NetEvents
        /\ launched = 0
        /\ pc \in {"start", "classify", "returned"}
        /\ pc = "returned" =>
              /\ ~ok
              /\ info = NoInfo
              /\ trace = IF StartsWithHttp(url) THEN <<"unsupported">> ELSE <<"invalid">>

\* an http URL of an unsupported host was rejected at classification
C4_Witness ==
    /\ pc = "returned"
    /\ url = Unsupported
    /\ trace = <<"unsupported">>

\* C5: without pyppeteer the browser is never invoked, and the outcome of the
\* resolution is that of the other strategies in their order: a descriptor
\* comes from the Graph API or the page scraper, and a failure is the failure
\* of the page scraper (or of the short-link expansion).
C5_BrowserAbsent ==
    ~available =>
        /\ ~Has("try browser") /\ ~Has("fail browser")
        /\ launched = 0 /\ bridge = "" /\ coro = ""
        /\ Tries \in {<<>>, <<"try meta">>, <<"try scrape">>,
                      <<"try meta", "try scrape">>}
        /\ Resolved => (Has("ok meta") \/ Has("ok scrape"))
        /\ Has("ok meta") \/ Has("ok scrape") => Resolved
        /\ ResolutionFailed => (Has("fail scrape") \/ Has("expand failed"))

\* a SharePoint link fails without pyppeteer, on the failure of the scraper
C5_Witness ==
    /\ ~available
    /\ route = "sharepoint"
    /\ ResolutionFailed
    /\ Tries = <<"try scrape">>

\* C6: when extract_with_browser_sync has returned or raised, no browser
\* launched by it is still open.
C6_BrowserClosed ==
    (bridge = "" /\ (Has("ok browser") \/ Has("fail browser"))) => open = 0

\* the bridging call ended with the TimeoutError of the worker-thread path
\* after a browser had been launched
C6_Witness ==
    /\ bridge = ""
    /\ Has("fail browser")
    /\ timedOut
    /\ launched > 0
    /\ open = 0

\* C7: a bridging call that has started eventually returns or raises.
C7_BridgeReturns == (bridge # "") ~> (bridge = "")

\* the result the five rules give when each rule whose trigger is present is
\* applied in order until one yields a non-empty identifier
SpecifiedId(u, orig) ==
    LET r == <<IF HasResidEq(u) THEN Rule1(u) ELSE None,
               IF HasRedir(u) THEN Rule2(u) ELSE None,
               IF HasIdEq(u) THEN Rule3(u) ELSE None,
               IF Contains(orig, "1drv.ms") THEN Rule4(orig) ELSE None,
               Rule5(u)>>
        i == First({j \in 1..5 : ~Falsy(r[j])})
    IN  IF i = 0 THEN None ELSE r[i]

\* C8: the identifier extracted is the result of the first of the five rules,
\* in order, that yields a non-empty identifier.
C8_FirstRuleThatYields ==
    exId # "?" => exId = SpecifiedId(exUrl, exOrig)

\* C9: the Graph API is asked at most once per link, exactly once when it is
\* tried; a 200 answer with a download URL is returned as the descriptor and
\* nothing else is attempted; after another status or a transport error the
\* next strategy is attempted.
C9_MetadataOnce ==
    /\ Count("GET meta") <= 1
    /\ Has("try meta") => Count("GET meta") = 1
    /\ Has("meta=ok") =>
          /\ Has("ok meta")
          /\ Tries = <<"try meta">>
          /\ info = MetaInfo("ok", fileId, info.name)
          /\ info.download_url = "meta_url"
          /\ ~Has("GET page") /\ ~Has("launch")
    /\ Has("meta=non200") \/ Has("meta=error") =>
          /\ Has("fail meta")
          /\ ~Has("ok meta")
          /\ IF pc = "strategy" /\ Len(Tries) = 1
             THEN step = 2 /\ step <= Len(plan)
             ELSE Len(Tries) >= 2

\* the page scraper resolved a link after a transport error of the Graph API
C9_Witness ==
    /\ Has("meta=error")
    /\ Tries = <<"try meta", "try scrape">>
    /\ Has("ok scrape")

\* the lines that are neither blank nor comments, stripped, in file order
RECURSIVE LinkLines(_)
LinkLines(ls) ==
    IF ls = <<>> THEN <<>>
    ELSE (IF Head(ls).body = Blank \/ (~Head(ls).ws /\ Head(ls).body.lead = "hash")
          THEN <<>> ELSE <<Head(ls).body>>) \o LinkLines(Tail(ls))

\* C10: in batch mode the links processed are the lines that are neither
\* blank nor comments, each once and in file order, and the total of the
\* summary, which is successful + failed, is the number of links processed.
C10_BatchSummary ==
    (mainPc = "exit" /\ argv = "file" /\ fileFound /\ configOk) =>
        /\ processed = LinkLines(lines)
        /\ summary.total = Len(processed)
        /\ summary.successful + summary.failed = summary.total

\* the events that report the failure of a stage of process_link
FailureEvents == {"invalid", "unsupported", "expand failed", "fail scrape",
                  "fail browser", "download failed", "upload failed"}

\* C11: in batch mode the result of every link, a failure at any stage
\* included, is stored in results under that link when process_link returns,
\* a link whose processing failed returns False, and the run ends only after
\* every link of the file has been processed.
C11_FailureContained ==
    /\ (mainPc = "loop" /\ pc = "idle" /\ idx >= 1) =>
          url \in DOMAIN results /\ results[url] = ok
    /\ (mainPc = "loop" /\ pc = "returned" /\ ~Has("uploaded")) => ~ok
    /\ (mainPc = "loop" /\ pc = "returned" /\ ResolutionFailed) => ~ok
    /\ (mainPc = "exit" /\ argv = "file" /\ configOk) =>
          idx = Len(links) /\ processed = links

\* a batch run ended in which the first link failed and the second, another
\* link, was processed with success
C11_Witness ==
    /\ mainPc = "exit"
    /\ argv = "file"
    /\ Len(processed) = 2
    /\ processed[1] # processed[2]
    /\ ~results[processed[1]]
    /\ results[processed[2]]

\* C14: for one link the Graph API, the browser resolver, the page scraper,
\* the download and the upload are each run at most once.
C14_NothingRetried ==
    /\ Count("try meta") <= 1 /\ Count("GET meta") <= 1
    /\ Count("try browser") <= 1
    /\ runs <= 1 /\ Count("launch") <= 1
    /\ Count("try scrape") <= 1
    /\ Count("GET download") <= 1
    /\ Count("upload") <= 1

\* C16: a single-link run ends with status 0 when the link was uploaded and
\* with status 1 when its processing failed or the R2 configuration is
\* missing.
C16_SingleExitStatus ==
    (mainPc = "exit" /\ argv = "single") =>
        /\ exitCode \in {0, 1}
        /\ exitCode = 0 <=> (configOk /\ ok /\ Has("uploaded"))
        /\ exitCode = 1 <=> (~configOk \/ ~ok)
        /\ ok <=> Has("uploaded")

\* a single-link run ended with status 1 after a failed upload
C16_Witness ==
    /\ mainPc = "exit"
    /\ argv = "single"
    /\ exitCode = 1
    /\ Has("upload failed")

\* C17: the descriptor handed to download_file carries a download URL that
\* is a non-empty string.
C17_DownloadUrlNonEmpty ==
    pc = "download" => ~Falsy(info.download_url)

\* C12: when process_link has returned for a link, no file written for that
\* link is left on disk, whatever file name the resolution produced.
C12_NoFileRemains == pc = "returned" => written = {}

\* the key the text describes: prefix, a forward slash and the file name (the
\* file name alone when the prefix is empty), with backslashes turned into
\* slashes and a leading slash removed
SpecifiedKey(pre, name) ==
    StripLeadingSlash(ReplaceBackslash(
        IF pre = <<>> THEN name ELSE pre \o <<"/">> \o name))

\* C13: the object key of an upload is the prefix joined to the file name
\* with a forward slash, holds no backslash and does not begin with a slash.
C13_KeyIsPrefixSlashName ==
    Has("upload") =>
        /\ r2Key = SpecifiedKey(prefix, info.name)
        /\ \A i \in 1..Len(r2Key) : r2Key[i] # "\\"
        /\ r2Key # <<>> => r2Key[1] # "/"

\* C15: nothing that an earlier link changed is present when the processing
\* of a link starts: the session holds no cookie that a response to an
\* earlier link has set, so the requests of the link do not depend on the
\* links before it.
C15_NothingCarriedOver == pc = "start" => ~jar

\* the page scraper has been called for the link and has not yet returned
Scraping == Has("try scrape") /\ ~Has("ok scrape") /\ ~Has("fail scrape")

====
